---- MODULE Spec2Model ----
(***************************************************************************)
(* The three OpenCL host programs of the repository as one state machine:  *)
(*   "device_info"  src/unnamed/part_000           (prints device info)    *)
(*   "hello_world"  src/unnamed/part_001           (runs kernel "hello")   *)
(*   "vector_add"   src/opencl/vector_add/add.cpp  (array-sum benchmark)   *)
(* together with the OpenCL device that executes the enqueued work-items.  *)
(*                                                                         *)
(* Conventions.  C arrays are 0-based, sequences here are 1-based: element *)
(* i of the source is element i+1 of the model; loop counters keep the     *)
(* source's 0-based values.  The host programs are built without           *)
(* __CL_ENABLE_EXCEPTIONS, so every cl:: call reports failure through a    *)
(* return code; clErrors collects the calls whose code was an error (the   *)
(* programs themselves discard all of them except program.build()).        *)
(* A call fails exactly when the OpenCL API says its arguments are invalid *)
(* (zero-sized buffer, unknown kernel name, null kernel, zero work size);  *)
(* resource exhaustion is not injected.  clock() and the timing figures of *)
(* the report are not modelled.                                            *)
(***************************************************************************)
EXTENDS Integers, Sequences, FiniteSets, TLC

\* ---- bounds of the model ------------------------------------------------
MaxPlatforms == 2      \* platforms the enumeration may return
MaxDevices == 2        \* devices a platform may hold
MaxDim == 3            \* ARRAYS_DIM ranges over 0..MaxDim (1 << 20 in main)

\* ---- program constants --------------------------------------------------
EXECUTIONS == 10

\* contents an uninitialised int cell may show: the wanted sum, or not
UninitVals == {0, 8}

Programs == {"device_info", "hello_world", "vector_add"}

NoDevice == <<0, 0>>
NullKernel == [name |-> "", args |-> 0]
NullProgram == [created |-> FALSE, kernels |-> {}]

VARIABLES
  prog,        \* which executable runs
  pc,          \* position of the host thread
  clPlatforms, \* what the platform would enumerate: platforms, each a list of devices
  ARRAYS_DIM,  \* add.cpp:25
  a, b,        \* add.cpp:26-27 input arrays
  cs, cp,      \* add.cpp:30-31 sequential and parallel outputs
  seqI, parI,  \* loop counters of add.cpp:35 and add.cpp:46
  device,      \* add.cpp:16 / part_001:34 / part_000:27
  program,     \* add.cpp:14 / part_001:43
  err,         \* result of program.build()
  aBuf, bBuf, cBuf,  \* device buffers of parSumArrays, <<>> when null
  memBuf,      \* device buffer of hello_world
  buf,         \* host char buf[16] of hello_world
  kernel,      \* the cl::Kernel of the current call
  queueOk,     \* the cl::CommandQueue is valid
  ndrange,     \* global work size of the kernel command in the queue, 0 if none
  finished,    \* work-items of that command that have completed
  eqI,         \* loop counter of checkEquality
  equal,       \* add.cpp:53
  clErrors,    \* cl:: calls that returned an error code
  out,         \* std::cout
  diag,        \* std::cerr
  exitCode     \* value given to exit() or returned by main

vars == <<prog, pc, clPlatforms, ARRAYS_DIM, a, b, cs, cp, seqI, parI, device,
          program, err, aBuf, bBuf, cBuf, memBuf, buf, kernel, queueOk, ndrange,
          finished, eqI, equal, clErrors, out, diag, exitCode>>

hostArrays == <<a, b, cs, cp>>
loopVars == <<seqI, parI>>
selVars == <<device, program, err>>
devMem == <<aBuf, bBuf, cBuf, memBuf>>
cmdVars == <<kernel, queueOk, ndrange, finished>>
eqVars == <<eqI, equal>>
ioVars == <<out, diag, exitCode>>

\* ---- the environment ----------------------------------------------------
\* every enumeration result: up to MaxPlatforms platforms of up to MaxDevices
\* devices; device d of platform p is <<p, d>>
DeviceCounts == UNION {[1..n -> 0..MaxDevices] : n \in 0..MaxPlatforms}
Enumerations ==
  {[p \in 1..Len(cnt) |-> [d \in 1..cnt[p] |-> <<p, d>>]] : cnt \in DeviceCounts}

\* the kernels add.cl defines (add.cl:1) and the parameters of add
AddClKernels == {"add"}
AddArity == 3

\* the kernel hello.cl defines, and its one parameter (part_001:55, part_001:58)
HelloClKernels == {"hello"}
HelloArity == 1

KernelArity(name) ==
  IF name = "add" THEN AddArity
  ELSE IF name = "hello" THEN HelloArity
  ELSE 0

Fill(n, v) == [i \in 1..n |-> v]

Init ==
  /\ prog \in Programs
  /\ pc = "start"
  /\ clPlatforms \in Enumerations
  /\ ARRAYS_DIM \in 0..MaxDim
  /\ a = Fill(ARRAYS_DIM, 3)
  /\ b = Fill(ARRAYS_DIM, 5)
  /\ cs = Fill(ARRAYS_DIM, 0)
  /\ cp = Fill(ARRAYS_DIM, 0)
  /\ seqI = 0 /\ parI = 0
  /\ device = NoDevice
  /\ program = NullProgram
  /\ err = "unset"
  /\ aBuf = <<>> /\ bBuf = <<>> /\ cBuf = <<>>
  /\ memBuf = "null"
  /\ buf = "uninit"
  /\ kernel = NullKernel
  /\ queueOk = FALSE
  /\ ndrange = 0
  /\ finished = {}
  /\ eqI = 0 /\ equal = FALSE
  /\ clErrors = {}
  /\ out = <<>> /\ diag = <<>>
  /\ exitCode = 0


\* ---- pure functions of add.cpp -------------------------------------------

\* getDefaultDevice with a selection policy: the first platform that has a device
getDefaultDevice_firstUsable(platforms) ==
  LET usable == {p \in 1..Len(platforms) : platforms[p] # <<>>}
  IN IF platforms = <<>>
     THEN [msg |-> "no platforms found!", device |-> NoDevice]
     ELSE IF usable = {}
          THEN [msg |-> "no devices found!", device |-> NoDevice]
          ELSE [msg |-> "",
                device |-> Head(platforms[CHOOSE p \in usable : \A q \in usable : p <= q])]

\* add.cpp:66-89.  msg is what goes to std::cerr before exit(1); "" when a
\* device is returned
getDefaultDevice(platforms) ==
  IF platforms = <<>>
  THEN [msg |-> "no platforms found!", device |-> NoDevice]
  ELSE LET platform == Head(platforms)
           devices == platform
       IN IF devices = <<>>
          THEN [msg |-> "no devices found!", device |-> NoDevice]
          ELSE [msg |-> "", device |-> Head(devices)]

\* add.cpp:118-120, the loop from counter value i on
RECURSIVE seqLoop(_, _, _, _, _)
seqLoop(x, y, c, i, N) ==
  IF i < N
  THEN seqLoop(x, y, [c EXCEPT ![i + 1] = x[i + 1] + y[i + 1]], i + 1, N)
  ELSE c

\* add.cpp:117-121
seqSumArrays(x, y, c, N) == seqLoop(x, y, c, 0, N)

\* add.cl:1-6, the work-item with get_global_id(0) = idx: the c it leaves
add(x, y, c, idx) == [c EXCEPT ![idx + 1] = x[idx + 1] + y[idx + 1]]

\* clCreateBuffer of N ints: a zero size is CL_INVALID_BUFFER_SIZE
BufferSizeOk(N) == N > 0

\* the contents a fresh device buffer of N ints without a host pointer may show
UninitBuffers(N) == [1..N -> UninitVals]

\* ---- vector_add: main ------------------------------------------------------

\* add.cpp:35-37, one pass of the loop head
SeqLoop ==
  /\ prog = "vector_add"
  /\ pc \in {"start", "seq_loop"}
  /\ IF seqI < EXECUTIONS
     THEN /\ cs' = seqSumArrays(a, b, cs, ARRAYS_DIM)
          /\ seqI' = seqI + 1
          /\ pc' = "seq_loop"
     ELSE /\ pc' = "init_select"
          /\ UNCHANGED <<cs, seqI>>
  /\ UNCHANGED <<prog, clPlatforms, ARRAYS_DIM, a, b, cp, parI, selVars, devMem,
                 buf, cmdVars, eqVars, clErrors, ioVars>>

\* InitSelect with the device-less run going on after the message (no exit)
InitSelect_noExit ==
  /\ prog = "vector_add"
  /\ pc = "init_select"
  /\ LET r == getDefaultDevice(clPlatforms)
     IN /\ diag' = IF r.msg # "" THEN Append(diag, r.msg) ELSE diag
        /\ device' = r.device
        /\ pc' = "init_build"
        /\ UNCHANGED exitCode
  /\ UNCHANGED <<prog, clPlatforms, ARRAYS_DIM, hostArrays, loopVars, program, err,
                 devMem, buf, cmdVars, eqVars, clErrors, out>>

\* InitSelect leaving with -1, as main of the device-info program does
InitSelect_exitMinusOne ==
  /\ prog = "vector_add"
  /\ pc = "init_select"
  /\ LET r == getDefaultDevice(clPlatforms)
     IN IF r.msg # ""
        THEN /\ diag' = Append(diag, r.msg)
             /\ exitCode' = -1
             /\ pc' = "exited"
             /\ UNCHANGED device
        ELSE /\ device' = r.device
             /\ pc' = "init_build"
             /\ UNCHANGED <<diag, exitCode>>
  /\ UNCHANGED <<prog, clPlatforms, ARRAYS_DIM, hostArrays, loopVars, program, err,
                 devMem, buf, cmdVars, eqVars, clErrors, out>>

\* add.cpp:96, initializeDevice calls getDefaultDevice
InitSelect ==
  /\ prog = "vector_add"
  /\ pc = "init_select"
  /\ LET r == getDefaultDevice(clPlatforms)
     IN IF r.msg # ""
        THEN /\ diag' = Append(diag, r.msg)
             /\ exitCode' = 1
             /\ pc' = "exited"
             /\ UNCHANGED device
        ELSE /\ device' = r.device
             /\ pc' = "init_build"
             /\ UNCHANGED <<diag, exitCode>>
  /\ UNCHANGED <<prog, clPlatforms, ARRAYS_DIM, hostArrays, loopVars, program, err,
                 devMem, buf, cmdVars, eqVars, clErrors, out>>

\* add.cpp:99-107, read add.cl, create the program and build it.  Whether the
\* build succeeds is the compiler's answer: add.cl:8-28 is CUDA host code after
\* the kernel, which an OpenCL C compiler need not accept, so both outcomes are
\* kept.  A built program holds the kernels of add.cl:1-6
InitBuild ==
  /\ prog = "vector_add"
  /\ pc = "init_build"
  /\ \E ok \in BOOLEAN :
       /\ err' = IF ok THEN "CL_SUCCESS" ELSE "CL_BUILD_PROGRAM_FAILURE"
       /\ program' = [created |-> TRUE,
                      kernels |-> IF ok THEN AddClKernels ELSE {}]
  /\ pc' = "init_check"
  /\ UNCHANGED <<prog, clPlatforms, ARRAYS_DIM, hostArrays, loopVars, device,
                 devMem, buf, cmdVars, eqVars, clErrors, ioVars>>

\* InitCheck that prints the build log and goes on (no exit)
InitCheck_noExit ==
  /\ prog = "vector_add"
  /\ pc = "init_check"
  /\ diag' = IF err # "CL_SUCCESS" THEN diag \o <<"build status", "build log">> ELSE diag
  /\ pc' = "par_loop"
  /\ UNCHANGED <<prog, clPlatforms, ARRAYS_DIM, hostArrays, loopVars, selVars,
                 devMem, buf, cmdVars, eqVars, clErrors, out, exitCode>>

\* add.cpp:108-112
InitCheck ==
  /\ prog = "vector_add"
  /\ pc = "init_check"
  /\ IF err # "CL_SUCCESS"
     THEN /\ diag' = diag \o <<"build status", "build log">>
          /\ exitCode' = 1
          /\ pc' = "exited"
     ELSE /\ pc' = "par_loop"
          /\ UNCHANGED <<diag, exitCode>>
  /\ UNCHANGED <<prog, clPlatforms, ARRAYS_DIM, hostArrays, loopVars, selVars,
                 devMem, buf, cmdVars, eqVars, clErrors, out>>

\* add.cpp:46-48, the loop head
ParLoop ==
  /\ prog = "vector_add"
  /\ pc = "par_loop"
  /\ pc' = IF parI < EXECUTIONS THEN "par_buffers" ELSE "check"
  /\ UNCHANGED <<prog, clPlatforms, ARRAYS_DIM, hostArrays, loopVars, selVars,
                 devMem, buf, cmdVars, eqVars, clErrors, ioVars>>


\* ---- vector_add: parSumArrays ----------------------------------------------

\* add.cpp:128-130.  aBuf and bBuf copy the host arrays (CL_MEM_COPY_HOST_PTR),
\* cBuf has no host pointer and starts with unspecified contents; the buffers
\* and the kernel of the previous call were released when it returned
ParBuffers ==
  /\ prog = "vector_add"
  /\ pc = "par_buffers"
  /\ IF BufferSizeOk(ARRAYS_DIM)
     THEN /\ aBuf' = a
          /\ bBuf' = b
          /\ cBuf' \in UninitBuffers(ARRAYS_DIM)
          /\ UNCHANGED clErrors
     ELSE /\ aBuf' = <<>> /\ bBuf' = <<>> /\ cBuf' = <<>>
          /\ clErrors' = clErrors \cup {"Buffer"}
  /\ kernel' = NullKernel
  /\ queueOk' = FALSE
  /\ ndrange' = 0
  /\ finished' = {}
  /\ pc' = "par_kernel"
  /\ UNCHANGED <<prog, clPlatforms, ARRAYS_DIM, hostArrays, loopVars, selVars,
                 memBuf, buf, eqVars, ioVars>>

\* the kernel name parSumArrays asks for, add.cpp:133
ParKernelName == "sumArrays"

\* clCreateKernel(program, name): CL_INVALID_KERNEL_NAME leaves a null kernel
CreateKernel(prg, name) ==
  IF name \in prg.kernels THEN [name |-> name, args |-> 0] ELSE NullKernel

\* add.cpp:133
ParKernel ==
  /\ prog = "vector_add"
  /\ pc = "par_kernel"
  /\ kernel' = CreateKernel(program, ParKernelName)
  /\ clErrors' = IF kernel' = NullKernel THEN clErrors \cup {"Kernel"} ELSE clErrors
  /\ pc' = "par_setarg"
  /\ UNCHANGED <<prog, clPlatforms, ARRAYS_DIM, hostArrays, loopVars, selVars,
                 devMem, buf, queueOk, ndrange, finished, eqVars, ioVars>>

\* clSetKernelArg n times: CL_INVALID_KERNEL on a null kernel
SetArgs(k, n) == IF k = NullKernel THEN k ELSE [k EXCEPT !.args = n]

\* add.cpp:134-136
ParSetArg ==
  /\ prog = "vector_add"
  /\ pc = "par_setarg"
  /\ kernel' = SetArgs(kernel, 3)
  /\ clErrors' = IF kernel = NullKernel THEN clErrors \cup {"setArg"} ELSE clErrors
  /\ pc' = "par_enqueue"
  /\ UNCHANGED <<prog, clPlatforms, ARRAYS_DIM, hostArrays, loopVars, selVars,
                 devMem, buf, queueOk, ndrange, finished, eqVars, ioVars>>

\* clEnqueueNDRangeKernel / clEnqueueTask of n work-items succeeds when the
\* kernel is valid with all its arguments set and n is positive
EnqueueOk(k, n) == k # NullKernel /\ k.args = KernelArity(k.name) /\ n > 0

\* add.cpp:139-140, an in-order queue on the device and the dispatch
ParEnqueue ==
  /\ prog = "vector_add"
  /\ pc = "par_enqueue"
  /\ queueOk' = TRUE
  /\ IF EnqueueOk(kernel, ARRAYS_DIM)
     THEN /\ ndrange' = ARRAYS_DIM
          /\ UNCHANGED clErrors
     ELSE /\ ndrange' = 0
          /\ clErrors' = clErrors \cup {"enqueueNDRangeKernel"}
  /\ finished' = {}
  /\ pc' = "par_read"
  /\ UNCHANGED <<prog, clPlatforms, ARRAYS_DIM, hostArrays, loopVars, selVars,
                 devMem, buf, kernel, eqVars, ioVars>>

\* the work-items of the kernel command that have not run yet
Pending == (0..(ndrange - 1)) \ finished

\* a blocking read of n bytes on the in-order queue: the buffer must be valid
\* and n positive
ReadOk(valid, n) == queueOk /\ valid /\ n > 0

\* add.cpp:141-142, the blocking read of cBuf into c, then the return to the
\* loop of main (add.cpp:46 i++); a blocking read on an in-order queue
\* completes after every earlier command
ParRead ==
  /\ prog = "vector_add"
  /\ pc = "par_read"
  /\ Pending = {}
  /\ IF ReadOk(cBuf # <<>>, ARRAYS_DIM)
     THEN /\ cp' = cBuf
          /\ UNCHANGED clErrors
     ELSE /\ clErrors' = clErrors \cup {"enqueueReadBuffer"}
          /\ UNCHANGED cp
  /\ parI' = parI + 1
  /\ pc' = "par_loop"
  /\ UNCHANGED <<prog, clPlatforms, ARRAYS_DIM, a, b, cs, seqI, selVars, devMem,
                 buf, cmdVars, eqVars, ioVars>>

\* ---- vector_add: checkEquality and the report ------------------------------

\* checkStep with the loop bound off by one: the last element is never compared
checkStep_offByOne(c1, c2, i, N) ==
  IF i < N - 1
  THEN IF c1[i + 1] # c2[i + 1]
       THEN <<TRUE, FALSE, i>>
       ELSE <<FALSE, FALSE, i + 1>>
  ELSE <<TRUE, TRUE, i>>

\* add.cpp:147-153, one pass of the loop of checkEquality(cs, cp, ARRAYS_DIM):
\* <<returned, value, next i>>
checkStep(c1, c2, i, N) ==
  IF i < N
  THEN IF c1[i + 1] # c2[i + 1]
       THEN <<TRUE, FALSE, i>>
       ELSE <<FALSE, FALSE, i + 1>>
  ELSE <<TRUE, TRUE, i>>

\* add.cpp:53 with add.cpp:146-154
CheckEquality ==
  /\ prog = "vector_add"
  /\ pc = "check"
  /\ LET r == checkStep(cs, cp, eqI, ARRAYS_DIM)
     IN /\ eqI' = r[3]
        /\ equal' = r[2]
        /\ pc' = IF r[1] THEN "report" ELSE "check"
  /\ UNCHANGED <<prog, clPlatforms, ARRAYS_DIM, hostArrays, loopVars, selVars,
                 devMem, buf, cmdVars, clErrors, ioVars>>

\* add.cpp:56-61: the status line and c[0]; reading cp[0] of an empty vector
\* shows an unspecified value
Report ==
  /\ prog = "vector_add"
  /\ pc = "report"
  /\ \E c0 \in (IF ARRAYS_DIM > 0 THEN {cp[1]} ELSE UninitVals) :
       out' = Append(out, [status |-> IF equal THEN "SUCCESS!" ELSE "FAILED!",
                           c0 |-> c0])
  /\ exitCode' = 0
  /\ pc' = "exited"
  /\ UNCHANGED <<prog, clPlatforms, ARRAYS_DIM, hostArrays, loopVars, selVars,
                 devMem, buf, cmdVars, eqVars, clErrors, diag>>


\* ---- the device --------------------------------------------------------------

\* what kernel "hello" leaves in its buffer (hello.cl)
hello(mem) == "Hello, World!"

\* one work-item of the kernel command at the head of the queue runs to
\* completion; the work-items of a command run in any order
RunWorkItem ==
  /\ \E idx \in Pending :
       /\ finished' = finished \cup {idx}
       /\ IF kernel.name = "add"
          THEN /\ cBuf' = add(aBuf, bBuf, cBuf, idx)
               /\ UNCHANGED memBuf
          ELSE /\ memBuf' = hello(memBuf)
               /\ UNCHANGED cBuf
  /\ UNCHANGED <<prog, pc, clPlatforms, ARRAYS_DIM, hostArrays, loopVars, selVars,
                 aBuf, bBuf, buf, kernel, queueOk, ndrange, eqVars, clErrors, ioVars>>

\* ---- hello_world -------------------------------------------------------------

\* part_001:6-28
get_default_device(platforms) ==
  IF platforms = <<>>
  THEN [msg |-> "no platforms found!", device |-> NoDevice]
  ELSE LET platform == Head(platforms)
           devices == platform
       IN IF devices = <<>>
          THEN [msg |-> "no devices found!", device |-> NoDevice]
          ELSE [msg |-> "", device |-> Head(devices)]

\* part_001:34
HelloSelect ==
  /\ prog = "hello_world"
  /\ pc = "start"
  /\ LET r == get_default_device(clPlatforms)
     IN IF r.msg # ""
        THEN /\ diag' = Append(diag, r.msg)
             /\ exitCode' = 1
             /\ pc' = "exited"
             /\ UNCHANGED device
        ELSE /\ device' = r.device
             /\ pc' = "h_build"
             /\ UNCHANGED <<diag, exitCode>>
  /\ UNCHANGED <<prog, clPlatforms, ARRAYS_DIM, hostArrays, loopVars, program, err,
                 devMem, buf, cmdVars, eqVars, clErrors, out>>

\* part_001:37-45
HelloBuild ==
  /\ prog = "hello_world"
  /\ pc = "h_build"
  /\ \E ok \in BOOLEAN :
       /\ err' = IF ok THEN "CL_SUCCESS" ELSE "CL_BUILD_PROGRAM_FAILURE"
       /\ program' = [created |-> TRUE,
                      kernels |-> IF ok THEN HelloClKernels ELSE {}]
  /\ pc' = "h_check"
  /\ UNCHANGED <<prog, clPlatforms, ARRAYS_DIM, hostArrays, loopVars, device,
                 devMem, buf, cmdVars, eqVars, clErrors, ioVars>>

\* part_001:46-50
HelloCheck ==
  /\ prog = "hello_world"
  /\ pc = "h_check"
  /\ IF err # "CL_SUCCESS"
     THEN /\ diag' = diag \o <<"build status", "build log">>
          /\ exitCode' = 1
          /\ pc' = "exited"
     ELSE /\ pc' = "h_create"
          /\ UNCHANGED <<diag, exitCode>>
  /\ UNCHANGED <<prog, clPlatforms, ARRAYS_DIM, hostArrays, loopVars, selVars,
                 devMem, buf, cmdVars, eqVars, clErrors, out>>

\* part_001:53-55, the 16-byte buffer and the kernel
HelloCreate ==
  /\ prog = "hello_world"
  /\ pc = "h_create"
  /\ memBuf' = "uninit"
  /\ kernel' = CreateKernel(program, "hello")
  /\ clErrors' = IF kernel' = NullKernel THEN clErrors \cup {"Kernel"} ELSE clErrors
  /\ pc' = "h_setarg"
  /\ UNCHANGED <<prog, clPlatforms, ARRAYS_DIM, hostArrays, loopVars, selVars,
                 aBuf, bBuf, cBuf, buf, queueOk, ndrange, finished, eqVars, ioVars>>

\* part_001:58
HelloSetArg ==
  /\ prog = "hello_world"
  /\ pc = "h_setarg"
  /\ kernel' = SetArgs(kernel, 1)
  /\ clErrors' = IF kernel = NullKernel THEN clErrors \cup {"setArg"} ELSE clErrors
  /\ pc' = "h_task"
  /\ UNCHANGED <<prog, clPlatforms, ARRAYS_DIM, hostArrays, loopVars, selVars,
                 devMem, buf, queueOk, ndrange, finished, eqVars, ioVars>>

\* part_001:61-62, enqueueTask dispatches a single work-item
HelloTask ==
  /\ prog = "hello_world"
  /\ pc = "h_task"
  /\ queueOk' = TRUE
  /\ IF EnqueueOk(kernel, 1)
     THEN /\ ndrange' = 1
          /\ UNCHANGED clErrors
     ELSE /\ ndrange' = 0
          /\ clErrors' = clErrors \cup {"enqueueTask"}
  /\ finished' = {}
  /\ pc' = "h_read"
  /\ UNCHANGED <<prog, clPlatforms, ARRAYS_DIM, hostArrays, loopVars, selVars,
                 devMem, buf, kernel, eqVars, ioVars>>

\* part_001:63, the blocking read of memBuf into buf
HelloRead ==
  /\ prog = "hello_world"
  /\ pc = "h_read"
  /\ Pending = {}
  /\ IF ReadOk(memBuf # "null", 16)
     THEN /\ buf' = memBuf
          /\ UNCHANGED clErrors
     ELSE /\ clErrors' = clErrors \cup {"enqueueReadBuffer"}
          /\ UNCHANGED buf
  /\ pc' = "h_print"
  /\ UNCHANGED <<prog, clPlatforms, ARRAYS_DIM, hostArrays, loopVars, selVars,
                 devMem, cmdVars, eqVars, ioVars>>

\* part_001:66-68
HelloPrint ==
  /\ prog = "hello_world"
  /\ pc = "h_print"
  /\ out' = Append(out, buf)
  /\ exitCode' = 0
  /\ pc' = "exited"
  /\ UNCHANGED <<prog, clPlatforms, ARRAYS_DIM, hostArrays, loopVars, selVars,
                 devMem, buf, cmdVars, eqVars, clErrors, diag>>

\* ---- device_info -------------------------------------------------------------

\* part_000:7-27, main up to the choice of the device
DevInfoSelect ==
  /\ prog = "device_info"
  /\ pc = "start"
  /\ LET platforms == clPlatforms
     IN IF platforms = <<>>
        THEN /\ diag' = Append(diag, "no platforms found!")
             /\ exitCode' = -1
             /\ pc' = "exited"
             /\ UNCHANGED device
        ELSE LET platform == Head(platforms)
                 devices == platform
             IN IF devices = <<>>
                THEN /\ diag' = Append(diag, "no devices found!")
                     /\ exitCode' = -1
                     /\ pc' = "exited"
                     /\ UNCHANGED device
                ELSE /\ device' = Head(devices)
                     /\ pc' = "d_print"
                     /\ UNCHANGED <<diag, exitCode>>
  /\ UNCHANGED <<prog, clPlatforms, ARRAYS_DIM, hostArrays, loopVars, program, err,
                 devMem, buf, cmdVars, eqVars, clErrors, out>>

\* part_000:28-48
DevInfoPrint ==
  /\ prog = "device_info"
  /\ pc = "d_print"
  /\ out' = Append(out, "OpenCL device info:")
  /\ exitCode' = 0
  /\ pc' = "exited"
  /\ UNCHANGED <<prog, clPlatforms, ARRAYS_DIM, hostArrays, loopVars, selVars,
                 devMem, buf, cmdVars, eqVars, clErrors, diag>>

\* ---- the system --------------------------------------------------------------

Next ==
  \/ SeqLoop
  \/ InitSelect
  \/ InitBuild
  \/ InitCheck
  \/ ParLoop
  \/ ParBuffers
  \/ ParKernel
  \/ ParSetArg
  \/ ParEnqueue
  \/ ParRead
  \/ CheckEquality
  \/ Report
  \/ RunWorkItem
  \/ HelloSelect
  \/ HelloBuild
  \/ HelloCheck
  \/ HelloCreate
  \/ HelloSetArg
  \/ HelloTask
  \/ HelloRead
  \/ HelloPrint
  \/ DevInfoSelect
  \/ DevInfoPrint

Spec == Init /\ [][Next]_vars


\* ---- properties --------------------------------------------------------------

VectorAdd == prog = "vector_add"
Exited == pc = "exited"
NoPlatform == clPlatforms = <<>>
NoDeviceOnFirst == clPlatforms # <<>> /\ Head(clPlatforms) = <<>>
EnumerationEmpty == NoPlatform \/ NoDeviceOnFirst
BeforeSelection == pc \in {"start", "seq_loop", "init_select"}
InParSumArrays == pc \in {"par_buffers", "par_kernel", "par_setarg", "par_enqueue", "par_read"}
EnumerationMessage == IF NoPlatform THEN "no platforms found!" ELSE "no devices found!"
Indices == 1..ARRAYS_DIM

\* C1: once initializeDevice has succeeded and a call of parSumArrays has
\* returned, cp equals elementwise what seqSumArrays produces, a[i] + b[i]
C1_ParEqualsSeq ==
  (VectorAdd /\ parI >= 1) =>
    /\ cp = seqSumArrays(a, b, cs, ARRAYS_DIM)
    /\ \A i \in Indices : cp[i] = a[i] + b[i]

\* C2: a benchmark run that found a device and built the kernel source ends
\* with 8 at every index of both outputs, checkEquality true and the pass status
C2_BenchmarkPasses ==
  (VectorAdd /\ Exited /\ exitCode = 0) =>
    /\ cs = Fill(ARRAYS_DIM, 8)
    /\ cp = Fill(ARRAYS_DIM, 8)
    /\ equal
    /\ out = <<[status |-> "SUCCESS!", c0 |-> out[1].c0]>>

\* C3 as stated: in every program an empty platform or device enumeration ends
\* the process with the message on the diagnostic stream and exit status 1
C3_EnumerationFailureExitsOne ==
  (EnumerationEmpty /\ Exited) =>
    /\ diag = <<EnumerationMessage>>
    /\ exitCode = 1

\* C3 as amended: with an empty platform or device enumeration no program goes
\* past the selection; it prints the message on the diagnostic stream and
\* nothing on the output, and ends with exit code 1 in the hello-world program
\* and the benchmark, with -1 (returned from main) in the device-info program
C3_EnumerationFailureExits ==
  EnumerationEmpty =>
    /\ BeforeSelection \/ Exited
    /\ out = <<>>
    /\ Exited =>
         /\ diag = <<EnumerationMessage>>
         /\ exitCode = IF prog = "device_info" THEN -1 ELSE 1

\* C3 witness: the device-info program has ended on an empty device list
C3_Witness ==
  prog = "device_info" /\ NoDeviceOnFirst /\ Exited

C5_BuildFailureIsFatal ==
  (err = "CL_BUILD_PROGRAM_FAILURE") =>
    /\ pc \in {"init_check", "h_check", "exited"}
    /\ kernel = NullKernel
    /\ ndrange = 0 /\ finished = {}
    /\ cBuf = <<>> /\ memBuf = "null"
    /\ cp = Fill(ARRAYS_DIM, 0) /\ buf = "uninit"
    /\ parI = 0
    /\ out = <<>>
    /\ Exited => (exitCode = 1 /\ diag = <<"build status", "build log">>)

\* C5 witness: the benchmark has ended on a failed build
C5_Witness ==
  VectorAdd /\ err = "CL_BUILD_PROGRAM_FAILURE" /\ Exited

\* C6: once a cl:: call of parSumArrays has failed the benchmark does not go on
\* to the equality check and the report, and it ends with a non-zero exit code
C6_RuntimeFailureIsFatal ==
  (VectorAdd /\ clErrors # {}) =>
    /\ pc \notin {"check", "report"}
    /\ Exited => exitCode # 0

\* C7: with the inputs fixed, a repetition of parSumArrays leaves in cp the
\* output the repetition before it left
C7_RepetitionsAgree ==
  [][(VectorAdd /\ pc = "par_read" /\ parI >= 1) => cp' = cp]_vars

\* C8: the selection fails with the no-platform message iff no platform is
\* enumerated, with the no-device message iff the first platform has no device
\* (whatever later platforms hold), and otherwise chooses devices[0] of
\* platforms[0]
C8_FirstDeviceOfFirstPlatform ==
  ~BeforeSelection =>
    /\ NoPlatform <=> (Exited /\ diag = <<"no platforms found!">>)
    /\ NoDeviceOnFirst <=> (Exited /\ diag = <<"no devices found!">>)
    /\ ~EnumerationEmpty => device = clPlatforms[1][1]
    /\ EnumerationEmpty => device = NoDevice

\* C8 witness: the benchmark's selection has failed on a first platform without
\* devices although the second platform has one
C8_Witness ==
  /\ VectorAdd /\ Exited
  /\ Len(clPlatforms) = 2 /\ clPlatforms[1] = <<>> /\ clPlatforms[2] # <<>>
  /\ diag = <<"no devices found!">>

\* C9: checkEquality returns true iff the arrays agree at every index; it
\* returns false at the first index where they differ, having examined no later
\* index; and it changes neither array
C9_CheckEquality ==
  /\ [](pc = "report" =>
          /\ equal <=> (\A i \in Indices : cs[i] = cp[i])
          /\ equal => eqI = ARRAYS_DIM
          /\ ~equal => /\ eqI < ARRAYS_DIM
                       /\ cs[eqI + 1] # cp[eqI + 1]
                       /\ \A j \in 1..eqI : cs[j] = cp[j])
  /\ [][pc = "check" => (cs' = cs /\ cp' = cp)]_vars

\* C9 witness: checkEquality has returned false at the second of three indices,
\* the first agreeing and the third differing too
C9_Witness ==
  /\ pc = "report" /\ ~equal /\ ARRAYS_DIM = 3 /\ eqI = 1
  /\ cs[1] = cp[1] /\ cs[3] # cp[3]

\* C10: when parSumArrays returns, the kernel was dispatched over all ARRAYS_DIM
\* work-items and each of them had completed before the read-back copied cBuf
\* to the host array
C10_ReadBackAfterAllUnits ==
  (VectorAdd /\ pc = "par_loop" /\ parI >= 1) =>
    /\ ndrange = ARRAYS_DIM
    /\ finished = 0..(ARRAYS_DIM - 1)

====
